---- MODULE Spec2Model ----
(***************************************************************************)
(* Watch-cycle engine of github-notify-ext.                                *)
(*                                                                         *)
(*   background : src/src/background/index.ts  (runWatchCycle, merge,      *)
(*                checkpoint, badge, alarm listener)                       *)
(*   popup      : src/unnamed/part_004 lines 373-472 (markAsReadAndUpdate, *)
(*                handleOpen)                                              *)
(*                                                                         *)
(* Timestamps are ISO-8601 strings in the code and are always compared     *)
(* through `new Date(x)`; the model keeps the millisecond value the string *)
(* denotes (toISOString / Date parsing is exact on it), epoch = 0.         *)
(* Texts are sequences of characters so that String.includes is computed.  *)
(***************************************************************************)
EXTENDS Integers, Sequences, FiniteSets, TLC

\* ------------------------------------------------------------------ bounds
MaxClock == 2      \* wall clock runs over 1..MaxClock (0 is the epoch)
MaxNodes == 1      \* nodes in one item-search response
MaxThreads == 2    \* review threads of one pull request in a response
MaxCycleThreads == 1   \* the same, in the answers of the single-cycle specification
MaxSetups == 2     \* calls of setupAlarms (firings of onInstalled)

\* --------------------------------------------------------- program constants
DEFAULT_INTERVAL_MINUTES == 5

Null == "null"                     \* JS null / undefined, for strings
NoTime == -1                       \* null, for a timestamp
NoLogin == <<>>                    \* null (falsy), for the cached login
NoSettings == [none |-> TRUE]      \* null, for the settings object
Epoch == 0                         \* new Date(0)
Invocations == {"a", "b"}          \* runWatchCycle activations that may coexist
WatchAlarm == "github-notify-watch"
AlarmNames == {WatchAlarm, "other"}   \* names the alarm listener may be called with
OtherInterval == 10                \* an interval the options page may save
Intervals == {DEFAULT_INTERVAL_MINUTES, OtherInterval}

\* ------------------------------------------------------------------- texts
Pat == "tokA"
PatB == "tokB"                     \* a credential of another account
Pats == {Pat, PatB}

\* viewer.login the API reports for a credential
ViewerOf(pat) == IF pat = PatB THEN <<"y", "o">> ELSE <<"m", "e">>
Plain == <<"o", "k">>
Mentioning == <<"h", "i", "@", "m", "e">>
Bodies == {Plain, Mentioning}

\* String.prototype.includes
includes(t, token) ==
  \E i \in 1..(Len(t) - Len(token) + 1) : SubSeq(t, i, i + Len(token) - 1) = token

\* `@${viewerLogin}`
mentionToken(viewerLogin) == <<"@">> \o viewerLogin

Ids(list) == {list[i].id : i \in 1..Len(list)}
Max(a, b) == IF a >= b THEN a ELSE b
IsPrefix(s, t) == Len(s) <= Len(t) /\ SubSeq(t, 1, Len(s)) = s

\* ------------------------------------------------------------ remote data
TypeOf(id) == IF id = "P1" THEN "PullRequest" ELSE "Issue"
NumberOf(id) == IF id = "P1" THEN 2 ELSE 1
Repository == [owner |-> [login |-> "o"], name |-> "r"]

\* One node of the item search (fields of the WatchIssuesAndPRs selection).
\* `typed` says whether the answer carries __typename for the node; the
\* selection as written does not ask for it, so the API leaves it out.
Node(id, typed, c, u, b, assigned) ==
  [ id |-> id,
    typename |-> IF typed THEN TypeOf(id) ELSE Null,
    number |-> NumberOf(id),
    repository |-> Repository,
    createdAt |-> c,
    updatedAt |-> u,
    body |-> b,
    assignees |-> IF assigned THEN <<[login |-> ViewerOf(Pat)]>> ELSE <<>>,
    comments |-> IF assigned THEN <<[body |-> Plain, updatedAt |-> u]>> ELSE <<>> ]

NodesAt(id, typed, now) ==
  { Node(id, typed, c, IF touched THEN now ELSE c, b, a) :
      c \in 0..now, touched \in BOOLEAN, b \in Bodies, a \in BOOLEAN }

\* Answers of the item search at wall-clock time `now`: at most MaxNodes
\* nodes, no node twice. The watched repository holds pull request P1 and,
\* in answers of two nodes, issue I1 ahead of it.
SearchResponses(typed, now) ==
  {<<>>}
  \cup (IF MaxNodes >= 1 THEN { <<n>> : n \in NodesAt("P1", typed, now) } ELSE {})
  \cup (IF MaxNodes >= 2
        THEN { <<i, n>> : i \in NodesAt("I1", typed, now), n \in NodesAt("P1", typed, now) }
        ELSE {})

\* One review thread: comments ordered by creation time, ascending.
ThreadComments(now) ==
  { << [body |-> Mentioning, createdAt |-> 0], [body |-> Plain, createdAt |-> t] >> :
      t \in 0..now }

Threads(now) ==
  { [isResolved |-> FALSE, comments |-> cs] : cs \in ThreadComments(now) }
  \cup { [isResolved |-> FALSE, comments |-> <<>>],
         [isResolved |-> FALSE, comments |-> << [body |-> Plain, createdAt |-> now] >>],
         [isResolved |-> TRUE,
          comments |-> << [body |-> Mentioning, createdAt |-> 0],
                          [body |-> Plain, createdAt |-> now] >>] }

RECURSIVE SeqsUpTo(_, _)
SeqsUpTo(S, n) ==
  IF n = 0 THEN {<<>>}
  ELSE LET shorter == SeqsUpTo(S, n - 1)
       IN shorter \cup { Append(s, x) : s \in {t \in shorter : Len(t) = n - 1}, x \in S }

\* Answers of the WatchReviewThreads lookup for the ids asked for.
PrNode(id, threads) ==
  [ id |-> id, number |-> NumberOf(id), repository |-> Repository,
    typename |-> Null, reviewThreads |-> threads ]

ReviewResponses(prIds, now) ==
  { [i \in 1..Len(prIds) |-> PrNode(prIds[i], ts)] : ts \in SeqsUpTo(Threads(now), MaxThreads) }

\* The answers the single-cycle specification draws from: both items of the
\* repository, and review threads of any shape of up to two comments.
WideSearchResponses(typed, now) ==
  {<<>>}
  \cup { <<n>> : n \in NodesAt("P1", typed, now) \cup NodesAt("I1", typed, now) }
  \cup { <<i, n>> : i \in NodesAt("I1", typed, now), n \in NodesAt("P1", typed, now) }

WideThreadComments(now) ==
  {<<>>}
  \cup { << [body |-> b, createdAt |-> t] >> : b \in Bodies, t \in 0..now }
  \cup { << [body |-> b[1], createdAt |-> t[1]], [body |-> b[2], createdAt |-> t[2]] >> :
           b \in Bodies \X Bodies, t \in {p \in (0..now) \X (0..now) : p[1] <= p[2]} }

WideThreads(now) ==
  { [isResolved |-> r, comments |-> cs] : r \in BOOLEAN, cs \in WideThreadComments(now) }

WideReviewResponses(prIds, now) ==
  { [i \in 1..Len(prIds) |-> PrNode(prIds[i], ts)] : ts \in SeqsUpTo(WideThreads(now), MaxCycleThreads) }

\* The answers the classification specification draws from: one item whose
\* assignees and comments vary independently, comments written by the viewer
\* or by someone else, ordered by update time, descending.
OtherLogin == <<"y", "o">>
Logins == {ViewerOf(Pat), OtherLogin}

AssigneeLists ==
  { <<>>, <<[login |-> ViewerOf(Pat)]>>, <<[login |-> OtherLogin]>>,
    <<[login |-> OtherLogin], [login |-> ViewerOf(Pat)]>> }

Comment(author, t) == [body |-> Plain, author |-> [login |-> author], updatedAt |-> t]

CommentLists(now) ==
  {<<>>}
  \cup { <<Comment(a, t)>> : a \in Logins, t \in 0..now }
  \cup { <<Comment(a[1], t[1]), Comment(a[2], t[2])>> :
           a \in Logins \X Logins, t \in {p \in (0..now) \X (0..now) : p[1] >= p[2]} }

RichNodesAt(id, typed, now) ==
  { [ Node(id, typed, c, IF touched THEN now ELSE c, b, FALSE) EXCEPT
        !.assignees = as, !.comments = cs ] :
      c \in 0..now, touched \in BOOLEAN, b \in Bodies,
      as \in AssigneeLists, cs \in CommentLists(now) }

RichSearchResponses(typed, now) ==
  {<<>>} \cup { <<n>> : n \in RichNodesAt("P1", typed, now) \cup RichNodesAt("I1", typed, now) }

\* ---------------------------------------------------------------- settings
StoredSettings(pat, repos, threads) ==
  [ pat |-> pat, repos |-> repos, intervalMinutes |-> DEFAULT_INTERVAL_MINUTES,
    enableNewItems |-> TRUE, enableMentions |-> TRUE,
    enableMentionThreads |-> threads, enableAssigneeComments |-> TRUE ]

OneRepo == <<[owner |-> "o", name |-> "r"]>>

\* A configured settings document with the four category flags as given.
FlagSettings(n, m, t, a) ==
  [ StoredSettings(Pat, OneRepo, t) EXCEPT
      !.enableNewItems = n, !.enableMentions = m, !.enableAssigneeComments = a ]

\* What the options page may have saved in sync storage.
SettingsChoices ==
  { StoredSettings(Pat, OneRepo, TRUE),
    StoredSettings(Pat, <<>>, TRUE), StoredSettings("", OneRepo, TRUE) }

\* Number(items.intervalMinutes) || DEFAULT_INTERVAL_MINUTES
intervalOf(items) ==
  IF items.intervalMinutes = 0 THEN DEFAULT_INTERVAL_MINUTES ELSE items.intervalMinutes

\* loadSettings: null when no PAT is stored
loadSettings(items) ==
  IF items.pat = "" THEN NoSettings ELSE [items EXCEPT !.intervalMinutes = intervalOf(items)]

\* Variant of Configured: the repository list is not looked at.
ConfiguredIgnoringRepos(settings) == ~(settings = NoSettings \/ settings.pat = "")

\* the guard at the head of runWatchCycle
Configured(settings) ==
  ~(settings = NoSettings \/ settings.pat = "" \/ Len(settings.repos) = 0)

\* -------------------------------------------------------------- classifier
\* Variant of isNew: an item created at the checkpoint counts as new.
isNewOrAtCheckpoint(node, lastCheckedAt) == node.createdAt >= lastCheckedAt

isNew(node, lastCheckedAt) == node.createdAt > lastCheckedAt

hasAssigneeMe(node, viewerLogin) ==
  \E i \in 1..Len(node.assignees) : node.assignees[i].login = viewerLogin

hasNewComment(node, lastCheckedAt) ==
  \E i \in 1..Len(node.comments) : node.comments[i].updatedAt > lastCheckedAt

hasMention(node, viewerLogin) ==
  LET textTargets == <<node.body>> \o [i \in 1..Len(node.comments) |-> node.comments[i].body]
  IN  \E i \in 1..Len(textTargets) : includes(textTargets[i], mentionToken(viewerLogin))

isPR(node) == node.typename = "PullRequest"

\* Variant of newItems: the enable flag is not looked at.
newItemsUngated(nodes, settings, lastCheckedAt) ==
  SelectSeq(nodes, LAMBDA n : isNew(n, lastCheckedAt))

newItems(nodes, settings, lastCheckedAt) ==
  SelectSeq(nodes, LAMBDA n : settings.enableNewItems /\ isNew(n, lastCheckedAt))

mentionItems(nodes, settings, viewerLogin) ==
  SelectSeq(nodes, LAMBDA n : settings.enableMentions /\ hasMention(n, viewerLogin))

\* Variant of assigneeCommentItems: comments the viewer wrote do not count.
assigneeCommentItemsByOthers(nodes, settings, lastCheckedAt, viewerLogin) ==
  SelectSeq(nodes, LAMBDA n :
    /\ settings.enableAssigneeComments
    /\ hasAssigneeMe(n, viewerLogin)
    /\ \E i \in 1..Len(n.comments) :
          /\ n.comments[i].updatedAt > lastCheckedAt
          /\ n.comments[i].author.login # viewerLogin)

assigneeCommentItems(nodes, settings, lastCheckedAt, viewerLogin) ==
  SelectSeq(nodes, LAMBDA n : /\ settings.enableAssigneeComments
                              /\ hasAssigneeMe(n, viewerLogin)
                              /\ hasNewComment(n, lastCheckedAt))

updatedPrIds(nodes, lastCheckedAt) ==
  LET prs == SelectSeq(nodes, LAMBDA n : isPR(n) /\ n.updatedAt > lastCheckedAt)
  IN  [i \in 1..Len(prs) |-> prs[i].id]

\* Variant of threadQualifies: the mentioning comment must be older than the
\* checkpoint.
threadQualifiesStrictlyBefore(thread, lastCheckedAt, viewerLogin) ==
  /\ ~thread.isResolved
  /\ Len(thread.comments) > 0
  /\ \E i \in 1..Len(thread.comments) :
        /\ thread.comments[i].createdAt < lastCheckedAt
        /\ includes(thread.comments[i].body, mentionToken(viewerLogin))
  /\ thread.comments[Len(thread.comments)].createdAt > lastCheckedAt

\* One unresolved, non-empty thread qualifies when a comment created at or
\* before the checkpoint mentions the viewer and the last comment is newer.
threadQualifies(thread, lastCheckedAt, viewerLogin) ==
  /\ ~thread.isResolved
  /\ Len(thread.comments) > 0
  /\ \E i \in 1..Len(thread.comments) :
        /\ thread.comments[i].createdAt <= lastCheckedAt
        /\ includes(thread.comments[i].body, mentionToken(viewerLogin))
  /\ thread.comments[Len(thread.comments)].createdAt > lastCheckedAt

\* mentionThreadItems: one entry (the pull request) per qualifying thread
RECURSIVE mentionThreadItems(_, _, _)
mentionThreadItems(prs, lastCheckedAt, viewerLogin) ==
  IF prs = <<>> THEN <<>>
  ELSE LET pr == Head(prs)
           hits == SelectSeq(pr.reviewThreads,
                             LAMBDA t : threadQualifies(t, lastCheckedAt, viewerLogin))
       IN  [i \in 1..Len(hits) |-> pr] \o mentionThreadItems(Tail(prs), lastCheckedAt, viewerLogin)

\* toStored (the nodes of both queries always carry id and repository; title
\* and url are copied through and read by neither merge nor acknowledgement)
toStored(node, kind, detectedAt) ==
  LET owner == node.repository.owner.login
      repo == node.repository.name
      nodeId == IF node.id # Null
                THEN node.id
                ELSE owner \o "/" \o repo \o "#" \o ToString(node.number)
  IN  [ id |-> kind \o ":" \o nodeId,
        kind |-> kind,
        isPullRequest |-> node.typename = "PullRequest",
        owner |-> owner, repo |-> repo, number |-> node.number,
        detectedAt |-> detectedAt ]

storedAll(nodes, kind, detectedAt) ==
  [i \in 1..Len(nodes) |-> toStored(nodes[i], kind, detectedAt)]

\* candidates of the first pass, in the order `collected` receives them
firstPass(nodes, settings, lastCheckedAt, viewerLogin, detectedAt) ==
  storedAll(newItems(nodes, settings, lastCheckedAt), "new", detectedAt)
  \o storedAll(mentionItems(nodes, settings, viewerLogin), "mention", detectedAt)
  \o storedAll(assigneeCommentItems(nodes, settings, lastCheckedAt, viewerLogin),
               "assignee", detectedAt)

threadPass(prs, lastCheckedAt, viewerLogin, detectedAt) ==
  storedAll(mentionThreadItems(prs, lastCheckedAt, viewerLogin), "thread", detectedAt)

\* ------------------------------------------------------ notification store
\* A stored value that is not an array, under the key of the notification
\* list and under the key of the read ids.
Malformed == << [malformed |-> TRUE] >>
MalformedIds == {"malformed"}

\* Array.isArray(items.notifications) ? items.notifications : []
asArray(stored) == IF stored # Malformed THEN stored ELSE <<>>

\* Array.isArray(items.readNotificationIds) ? items.readNotificationIds : []
asIds(stored) == IF stored # MalformedIds THEN stored ELSE {}

\* Variant of merge: every candidate is appended.
mergeWithoutDedup(existing, collected) == existing \o collected

\* Variant of merge: the candidates not yet stored go in front.
mergePrepending(existing, collected) ==
  SelectSeq(collected, LAMBDA n : n.id \notin Ids(existing)) \o existing

\* the merge loop: existingIds is built once, before the loop
merge(existing, collected) ==
  LET existingIds == Ids(existing)
  IN  existing \o SelectSeq(collected, LAMBDA n : n.id \notin existingIds)

addedCount(existing, collected) == Len(merge(existing, collected)) - Len(existing)

\* Variant of newBadgeCount: one more per merge, whatever was appended.
newBadgeCountPlusOne(badgeCount, added) == badgeCount + 1

newBadgeCount(badgeCount, added) == badgeCount + added

\* setBadge / the popup's setBadgeText
badgeTextOf(count) == IF count > 0 THEN ToString(count) ELSE ""

\* markAsReadAndUpdate, the part computed in the get callback
\* (readNotificationIds is only ever used through new Set(...): kept as a set)
readSetWith(readSet, id) == IF id \in readSet THEN readSet ELSE readSet \cup {id}

remainingAfter(notificationsInStore, readSet) ==
  SelectSeq(notificationsInStore, LAMBDA n : n.id \notin readSet)

\* Variant of ackBadgeCount: no floor.
ackBadgeCountUnfloored(badgeCount) == badgeCount - 1

ackBadgeCount(badgeCount) == Max(0, badgeCount - 1)

\* ------------------------------------------------------------------- state
VARIABLES
  clock,         \* Date.now()
  typedApi,      \* whether the endpoint puts __typename on the nodes it returns
  sync,          \* chrome.storage.sync: the saved settings
  local,         \* chrome.storage.local: notifications, readNotificationIds,
                 \*   badgeCount, lastCheckedAt
  runtimeState,  \* the background module's runtimeState
  badgeText,     \* chrome.action badge text
  inv,           \* per activation of runWatchCycle: where it is suspended, its locals
  popup,         \* the popup page: what it shows, a pending markAsReadAndUpdate
  lastAlarm,     \* when the periodic alarm fired last
  alarms,        \* chrome.alarms: the registered alarms, oldest first
  setup,         \* per call of setupAlarms: where it is suspended, its interval
  ev             \* the step taken last: [op, by, n]

vars ==
  <<clock, typedApi, sync, local, runtimeState, badgeText, inv, popup, lastAlarm,
    alarms, setup, ev>>

IdleInv ==
  [ pc |-> "idle", nowIso |-> 0, lastCheckedAt |-> 0, viewerLogin |-> NoLogin,
    settings |-> NoSettings, collected |-> <<>>, prIds |-> <<>>,
    merged |-> <<>>, newBadgeCount |-> 0 ]

NoWrite == [none |-> TRUE]         \* no markAsReadAndUpdate in flight
NoCallback == [none |-> TRUE]      \* no set callback outstanding
OpenPopup == [shown |-> {}, pending |-> NoWrite, callback |-> NoCallback]

\* one call of setupAlarms that has not been made
IdleSetup == [pc |-> "idle", intervalMinutes |-> 0]

\* chrome.alarms after onInstalled has run setupAlarms with nothing stored
InstalledAlarms == << [name |-> WatchAlarm, periodInMinutes |-> DEFAULT_INTERVAL_MINUTES] >>

\* what the last step was: its name, who took it, a count, and (for the steps
\* of the single-cycle specification) the answer the step consumed
Event(op, by, n) == [op |-> op, by |-> by, n |-> n, answer |-> <<>>]

Init ==
  /\ clock = 1
  /\ typedApi \in BOOLEAN
  /\ sync \in SettingsChoices
  /\ local = [ notifications |-> <<>>, readNotificationIds |-> {},
               badgeCount |-> 0, lastCheckedAt |-> NoTime ]
  /\ runtimeState = [viewerLogin |-> NoLogin, lastCheckedAt |-> NoTime]
  /\ badgeText = ""
  /\ inv = [c \in Invocations |-> IdleInv]
  /\ popup = OpenPopup
  /\ lastAlarm = NoTime
  /\ alarms = InstalledAlarms
  /\ setup = [k \in 1..MaxSetups |-> IdleSetup]
  /\ ev = Event("Init", "env", 0)

Busy == \E c \in Invocations : inv[c].pc # "idle"

\* ------------------------------------------------------------ chrome.alarms
Registered(registry, name) == \E k \in 1..Len(registry) : registry[k].name = name

\* chrome.alarms.clear(name)
alarmsClear(registry, name) == SelectSeq(registry, LAMBDA a : a.name # name)

\* Variant of alarmsCreate: an alarm of the same name is kept.
alarmsCreateStacking(registry, name, periodInMinutes) ==
  Append(registry, [name |-> name, periodInMinutes |-> periodInMinutes])

\* chrome.alarms.create(name, {periodInMinutes}): an alarm of the same name
\* is cancelled and replaced
alarmsCreate(registry, name, periodInMinutes) ==
  Append(alarmsClear(registry, name), [name |-> name, periodInMinutes |-> periodInMinutes])

\* ------------------------------------------------------------- environment
Tick ==
  /\ clock < MaxClock
  /\ clock' = clock + 1
  /\ ev' = Event("Tick", "env", 0)
  /\ UNCHANGED <<typedApi, alarms, setup, sync, local, runtimeState, badgeText, inv, popup, lastAlarm>>

\* The service worker is stopped while idle and started again: module state
\* is initialised anew, storage survives.
Restart ==
  /\ ~Busy
  /\ runtimeState # [viewerLogin |-> NoLogin, lastCheckedAt |-> NoTime]
  /\ runtimeState' = [viewerLogin |-> NoLogin, lastCheckedAt |-> NoTime]
  /\ ev' = Event("Restart", "env", 0)
  /\ UNCHANGED <<clock, typedApi, alarms, setup, sync, local, badgeText, inv, popup, lastAlarm>>

\* ------------------------------------------------------------ setupAlarms
\* chrome.runtime.onInstalled fires (install, extension update, browser
\* update): setupAlarms is called and suspends in loadSettings.
onInstalled(k) ==
  /\ setup[k].pc = "idle"
  /\ \A j \in 1..(k - 1) : setup[j].pc # "idle"
  /\ setup' = [setup EXCEPT ![k].pc = "load"]
  /\ ev' = Event("onInstalled", "setup", k)
  /\ UNCHANGED <<clock, typedApi, alarms, sync, local, runtimeState, badgeText, inv, popup, lastAlarm>>

\* settings?.intervalMinutes ?? DEFAULT_INTERVAL_MINUTES
intervalMinutesOf(settings) ==
  IF settings = NoSettings THEN DEFAULT_INTERVAL_MINUTES ELSE settings.intervalMinutes

\* loadSettings resolves: the interval is taken and alarms.clear is issued.
SetupLoaded(k) ==
  /\ setup[k].pc = "load"
  /\ setup' = [setup EXCEPT ![k] = [ pc |-> "clear",
                                      intervalMinutes |-> intervalMinutesOf(loadSettings(sync)) ]]
  /\ ev' = Event("SetupLoaded", "setup", k)
  /\ UNCHANGED <<clock, typedApi, alarms, sync, local, runtimeState, badgeText, inv, popup, lastAlarm>>

\* alarms.clear is applied.
SetupCleared(k) ==
  /\ setup[k].pc = "clear"
  /\ alarms' = alarmsClear(alarms, WatchAlarm)
  /\ setup' = [setup EXCEPT ![k].pc = "create"]
  /\ ev' = Event("SetupCleared", "setup", k)
  /\ UNCHANGED <<clock, typedApi, sync, local, runtimeState, badgeText, inv, popup, lastAlarm>>

\* The callback of alarms.clear runs: alarms.create with the interval taken.
SetupCreate(k) ==
  /\ setup[k].pc = "create"
  /\ alarms' = alarmsCreate(alarms, WatchAlarm, setup[k].intervalMinutes)
  /\ setup' = [setup EXCEPT ![k] = [pc |-> "done", intervalMinutes |-> 0]]
  /\ ev' = Event("SetupCreate", "setup", k)
  /\ UNCHANGED <<clock, typedApi, sync, local, runtimeState, badgeText, inv, popup, lastAlarm>>

\* Options page, handleSubmit: the form is written to sync storage, here
\* with another poll interval.
OptionsSave(intervalMinutes) ==
  /\ intervalMinutes # sync.intervalMinutes
  /\ sync' = [sync EXCEPT !.intervalMinutes = intervalMinutes]
  /\ ev' = Event("OptionsSave", "options", intervalMinutes)
  /\ UNCHANGED <<clock, typedApi, alarms, setup, local, runtimeState, badgeText, inv, popup, lastAlarm>>

\* Options page, handleSubmit: the form is written to sync storage, here
\* with the credential of another account.
OptionsSavePat(pat) ==
  /\ pat # sync.pat
  /\ sync' = [sync EXCEPT !.pat = pat]
  /\ ev' = Event("OptionsSavePat", "options", 0)
  /\ UNCHANGED <<clock, typedApi, alarms, setup, local, runtimeState, badgeText, inv, popup, lastAlarm>>

\* ---------------------------------------------------------- runWatchCycle
\* onAlarm listener: alarm 'github-notify-watch' calls runWatchCycle, which
\* suspends in loadSettings (storage.sync.get). The alarm is periodic: two
\* firings are at least one clock unit apart.
Alarm(c) ==
  /\ Registered(alarms, WatchAlarm)
  /\ lastAlarm < clock
  /\ inv[c].pc = "idle"
  /\ inv' = [inv EXCEPT ![c].pc = "loadSettings"]
  /\ lastAlarm' = clock
  /\ ev' = Event("Alarm", c, 0)
  /\ UNCHANGED <<clock, typedApi, alarms, setup, sync, local, runtimeState, badgeText, popup>>

\* Variant of onAlarm: the name of the alarm is not looked at.
onAlarmAnyName(name, c) ==
  /\ lastAlarm < clock
  /\ inv[c].pc = "idle"
  /\ inv' = [inv EXCEPT ![c].pc = "loadSettings"]
  /\ lastAlarm' = clock
  /\ ev' = Event(IF name = WatchAlarm THEN "Alarm" ELSE "OtherAlarm", c, 0)
  /\ UNCHANGED <<clock, typedApi, alarms, setup, sync, local, runtimeState, badgeText, popup>>

\* The listener of chrome.alarms.onAlarm, called with an alarm of this name.
onAlarm(name, c) ==
  IF name = WatchAlarm
  THEN Alarm(c)
  ELSE /\ ev' = Event("OtherAlarm", c, 0)
       /\ UNCHANGED <<clock, typedApi, alarms, setup, sync, local, runtimeState, badgeText,
                      inv, popup, lastAlarm>>

\* nowIso captured at the start of the cycle
captureNow == clock

\* runtimeState.lastCheckedAt ?? new Date(0).toISOString()
checkpointInEffect(rs) == IF rs.lastCheckedAt = NoTime THEN Epoch ELSE rs.lastCheckedAt

\* Variant of LoadSettings: the viewer query is sent whatever the cache holds.
LoadSettingsAlwaysAsking(c) ==
  /\ inv[c].pc = "loadSettings"
  /\ LET settings == loadSettings(sync) IN
       IF ~Configured(settings)
       THEN /\ inv' = [inv EXCEPT ![c] = IdleInv]
            /\ ev' = Event("Noop", c, 0)
       ELSE /\ inv' = [inv EXCEPT ![c] =
                        [ IdleInv EXCEPT
                            !.pc = "viewer",
                            !.settings = settings,
                            !.nowIso = captureNow,
                            !.lastCheckedAt = checkpointInEffect(runtimeState),
                            !.viewerLogin = runtimeState.viewerLogin ]]
            /\ ev' = Event("LoadSettings", c, 0)
  /\ UNCHANGED <<clock, typedApi, alarms, setup, sync, local, runtimeState, badgeText, popup, lastAlarm>>

\* The settings arrive; unconfigured: return. Otherwise nowIso and
\* lastCheckedAt are taken and ensureViewerLogin answers from the cache or
\* suspends in the viewer query.
LoadSettings(c) ==
  /\ inv[c].pc = "loadSettings"
  /\ LET settings == loadSettings(sync) IN
       IF ~Configured(settings)
       THEN /\ inv' = [inv EXCEPT ![c] = IdleInv]
            /\ ev' = Event("Noop", c, 0)
       ELSE /\ inv' = [inv EXCEPT ![c] =
                        [ IdleInv EXCEPT
                            !.pc = IF runtimeState.viewerLogin # NoLogin THEN "search" ELSE "viewer",
                            !.settings = settings,
                            !.nowIso = captureNow,
                            !.lastCheckedAt = checkpointInEffect(runtimeState),
                            !.viewerLogin = runtimeState.viewerLogin ]]
            /\ ev' = Event("LoadSettings", c, 0)
  /\ UNCHANGED <<clock, typedApi, alarms, setup, sync, local, runtimeState, badgeText, popup, lastAlarm>>

\* ensureViewerLogin: the GetViewer query answers
ViewerOk(c) ==
  /\ inv[c].pc = "viewer"
  /\ runtimeState' = [runtimeState EXCEPT !.viewerLogin = ViewerOf(inv[c].settings.pat)]
  /\ inv' = [inv EXCEPT ![c].pc = "search",
                        ![c].viewerLogin = ViewerOf(inv[c].settings.pat)]
  /\ ev' = Event("ViewerOk", c, 0)
  /\ UNCHANGED <<clock, typedApi, alarms, setup, sync, local, badgeText, popup, lastAlarm>>

\* Variant of Fails: a failed item search is swallowed and the cycle goes on
\* to the thread search.
FailsContinuing(c, at, op) ==
  /\ inv[c].pc = at
  /\ inv' = IF at = "search"
            THEN [inv EXCEPT ![c].pc = "threads", ![c].prIds = <<"P1">>]
            ELSE [inv EXCEPT ![c] = IdleInv]
  /\ ev' = Event(op, c, Len(inv[c].collected))
  /\ UNCHANGED <<clock, typedApi, alarms, setup, sync, local, runtimeState, badgeText, popup, lastAlarm>>

\* Variant of Fails: the checkpoint advances although the cycle failed.
FailsAdvancingCheckpoint(c, at, op) ==
  /\ inv[c].pc = at
  /\ inv' = [inv EXCEPT ![c] = IdleInv]
  /\ runtimeState' = [runtimeState EXCEPT !.lastCheckedAt = inv[c].nowIso]
  /\ ev' = Event(op, c, Len(inv[c].collected))
  /\ UNCHANGED <<clock, typedApi, alarms, setup, sync, local, badgeText, popup, lastAlarm>>

\* Variant of Fails: the failure handler forgets the checkpoint.
FailsResettingCheckpoint(c, at, op) ==
  /\ inv[c].pc = at
  /\ inv' = [inv EXCEPT ![c] = IdleInv]
  /\ runtimeState' = [runtimeState EXCEPT !.lastCheckedAt = NoTime]
  /\ ev' = Event(op, c, Len(inv[c].collected))
  /\ UNCHANGED <<clock, typedApi, alarms, setup, sync, local, badgeText, popup, lastAlarm>>

\* Variant of Fails: what was collected before the failure is stored.
FailsStoringPartial(c, at, op) ==
  /\ inv[c].pc = at
  /\ inv' = [inv EXCEPT ![c] = IdleInv]
  /\ local' = [local EXCEPT !.notifications = local.notifications \o inv[c].collected,
                            !.badgeCount = local.badgeCount + Len(inv[c].collected)]
  /\ ev' = Event(op, c, Len(inv[c].collected))
  /\ UNCHANGED <<clock, typedApi, alarms, setup, sync, runtimeState, badgeText, popup, lastAlarm>>

\* Variant of Fails: the cycle starts over inside the same activation.
FailsRetrying(c, at, op) ==
  /\ inv[c].pc = at
  /\ inv' = [inv EXCEPT ![c] = [IdleInv EXCEPT !.pc = "loadSettings"]]
  /\ ev' = Event(op, c, Len(inv[c].collected))
  /\ UNCHANGED <<clock, typedApi, alarms, setup, sync, local, runtimeState, badgeText, popup, lastAlarm>>

\* A remote call rejects: the exception leaves runWatchCycle and the alarm
\* listener logs it.
Fails(c, at, op) ==
  /\ inv[c].pc = at
  /\ inv' = [inv EXCEPT ![c] = IdleInv]
  /\ ev' = Event(op, c, Len(inv[c].collected))
  /\ UNCHANGED <<clock, typedApi, alarms, setup, sync, local, runtimeState, badgeText, popup, lastAlarm>>

ViewerFail(c) == Fails(c, "viewer", "ViewerFail")
SearchFail(c) == Fails(c, "search", "SearchFail")
ThreadsFail(c) == Fails(c, "threads", "ThreadsFail")

\* saveLastCheckedAt, its synchronous part
savedRuntime(rs, iso) == [rs EXCEPT !.lastCheckedAt = iso]

\* Variant of Proceed: the merge runs whether or not something was collected.
ProceedAlwaysMerging(c, collected, op, answer) ==
  /\ inv' = [inv EXCEPT ![c].pc = "mergeGet", ![c].collected = collected,
                        ![c].prIds = <<>>]
  /\ ev' = [Event(op, c, Len(collected)) EXCEPT !.answer = answer]
  /\ UNCHANGED runtimeState

\* After classification: merge when something was collected, else go
\* straight to saveLastCheckedAt.
Proceed(c, collected, op, answer) ==
  IF Len(collected) > 0
  THEN /\ inv' = [inv EXCEPT ![c].pc = "mergeGet", ![c].collected = collected,
                             ![c].prIds = <<>>]
       /\ ev' = [Event(op, c, Len(collected)) EXCEPT !.answer = answer]
       /\ UNCHANGED runtimeState
  ELSE /\ inv' = [inv EXCEPT ![c].pc = "saveSet", ![c].collected = <<>>,
                             ![c].prIds = <<>>]
       /\ runtimeState' = savedRuntime(runtimeState, inv[c].nowIso)
       /\ ev' = [Event(op, c, 0) EXCEPT !.answer = answer]

\* The item search answers with one of `responses`: first pass of the
\* classifier. `keep` says whether the step's record keeps the answer.
SearchOkOn(c, responses, keep) ==
  /\ inv[c].pc = "search"
  /\ \E nodes \in responses :
       LET i == inv[c]
           collected == firstPass(nodes, i.settings, i.lastCheckedAt, i.viewerLogin, i.nowIso)
           prIds == updatedPrIds(nodes, i.lastCheckedAt)
           answer == IF keep THEN nodes ELSE <<>>
       IN  IF i.settings.enableMentionThreads /\ Len(prIds) > 0
           THEN /\ inv' = [inv EXCEPT ![c].pc = "threads", ![c].collected = collected,
                                      ![c].prIds = prIds]
                /\ ev' = [Event("SearchOk", c, Len(collected)) EXCEPT !.answer = answer]
                /\ UNCHANGED runtimeState
           ELSE Proceed(c, collected, "SearchOk", answer)
  /\ UNCHANGED <<clock, typedApi, alarms, setup, sync, local, badgeText, popup, lastAlarm>>

SearchOk(c) == SearchOkOn(c, SearchResponses(typedApi, clock), FALSE)

\* The review-thread lookup answers with one of `responses`: thread pass of
\* the classifier.
ThreadsOkOn(c, responses, keep) ==
  /\ inv[c].pc = "threads"
  /\ \E prs \in responses :
       LET i == inv[c]
       IN  Proceed(c, i.collected \o threadPass(prs, i.lastCheckedAt, i.viewerLogin, i.nowIso),
                   "ThreadsOk", IF keep THEN prs ELSE <<>>)
  /\ UNCHANGED <<clock, typedApi, alarms, setup, sync, local, badgeText, popup, lastAlarm>>

ThreadsOk(c) == ThreadsOkOn(c, ReviewResponses(inv[c].prIds, clock), FALSE)

\* Variant of MergeGet: a stored list that is not an array makes the cycle fail.
MergeGetRejectingMalformed(c) ==
  /\ inv[c].pc = "mergeGet"
  /\ IF local.notifications = Malformed
     THEN /\ inv' = [inv EXCEPT ![c] = IdleInv]
          /\ ev' = Event("MergeFail", c, 0)
     ELSE LET existing == local.notifications
              added == addedCount(existing, inv[c].collected)
          IN  /\ inv' = [inv EXCEPT ![c].pc = "mergeSet",
                                    ![c].merged = merge(existing, inv[c].collected),
                                    ![c].newBadgeCount = newBadgeCount(local.badgeCount, added)]
              /\ ev' = Event("MergeGet", c, added)
  /\ UNCHANGED <<clock, typedApi, alarms, setup, sync, local, runtimeState, badgeText, popup, lastAlarm>>

\* storage.local.get({notifications, badgeCount}) calls back: merged and
\* newBadgeCount are computed from what it read, and storage.local.set is issued.
MergeGet(c) ==
  /\ inv[c].pc = "mergeGet"
  /\ LET existing == asArray(local.notifications)
         added == addedCount(existing, inv[c].collected)
     IN  /\ inv' = [inv EXCEPT ![c].pc = "mergeSet",
                               ![c].merged = merge(existing, inv[c].collected),
                               ![c].newBadgeCount = newBadgeCount(local.badgeCount, added)]
         /\ ev' = Event("MergeGet", c, added)
  /\ UNCHANGED <<clock, typedApi, alarms, setup, sync, local, runtimeState, badgeText, popup, lastAlarm>>

\* The set is applied (notifications and badgeCount in one document) and its
\* callback runs: setBadge, resolve; runWatchCycle continues into
\* saveLastCheckedAt, which assigns runtimeState and issues the next set.
MergeSet(c) ==
  /\ inv[c].pc = "mergeSet"
  /\ local' = [local EXCEPT !.notifications = inv[c].merged,
                            !.badgeCount = inv[c].newBadgeCount]
  /\ badgeText' = badgeTextOf(inv[c].newBadgeCount)
  /\ runtimeState' = savedRuntime(runtimeState, inv[c].nowIso)
  /\ inv' = [inv EXCEPT ![c].pc = "saveSet", ![c].collected = <<>>, ![c].merged = <<>>,
                        ![c].newBadgeCount = 0]
  /\ ev' = Event("MergeSet", c, inv[c].newBadgeCount - local.badgeCount)
  /\ UNCHANGED <<clock, typedApi, alarms, setup, sync, popup, lastAlarm>>

\* Variant of SaveSet: the time of the write is stored.
SaveSetAtWriteTime(c) ==
  /\ inv[c].pc = "saveSet"
  /\ local' = [local EXCEPT !.lastCheckedAt = clock]
  /\ inv' = [inv EXCEPT ![c] = IdleInv]
  /\ ev' = Event("SaveSet", c, 0)
  /\ UNCHANGED <<clock, typedApi, alarms, setup, sync, runtimeState, badgeText, popup, lastAlarm>>

\* storage.local.set({lastCheckedAt}) is applied; the cycle is complete.
SaveSet(c) ==
  /\ inv[c].pc = "saveSet"
  /\ local' = [local EXCEPT !.lastCheckedAt = inv[c].nowIso]
  /\ inv' = [inv EXCEPT ![c] = IdleInv]
  /\ ev' = Event("SaveSet", c, 0)
  /\ UNCHANGED <<clock, typedApi, alarms, setup, sync, runtimeState, badgeText, popup, lastAlarm>>

\* -------------------------------------------------------------------- popup
\* mount effect of App: the stored list is read and shown
PopupOpen ==
  /\ popup.pending = NoWrite /\ popup.callback = NoCallback
  /\ popup.shown # Ids(asArray(local.notifications))
  /\ popup' = [popup EXCEPT !.shown = Ids(asArray(local.notifications))]
  /\ ev' = Event("PopupOpen", "popup", 0)
  /\ UNCHANGED <<clock, typedApi, alarms, setup, sync, local, runtimeState, badgeText, inv, lastAlarm>>

\* A click on a shown entry n: handleOpen(n) -> markAsReadAndUpdate(n.id).
\* storage.local.get calls back, the new documents are computed from what it
\* read and storage.local.set is issued.
AckGet(id) ==
  /\ id \in popup.shown
  /\ popup.pending = NoWrite
  /\ LET readSet == readSetWith(asIds(local.readNotificationIds), id)
     IN  popup' = [popup EXCEPT !.pending =
                     [ id |-> id,
                       readSet |-> readSet,
                       remaining |-> remainingAfter(asArray(local.notifications), readSet),
                       newBadgeCount |-> ackBadgeCount(local.badgeCount) ]]
  /\ ev' = Event("AckGet", "popup", IF id \in asIds(local.readNotificationIds) THEN 1 ELSE 0)
  /\ UNCHANGED <<clock, typedApi, alarms, setup, sync, local, runtimeState, badgeText, inv, lastAlarm>>

\* The set is applied: the three keys are written as one document.
AckSet ==
  /\ popup.pending # NoWrite
  /\ popup.callback = NoCallback
  /\ local' = [local EXCEPT !.notifications = popup.pending.remaining,
                            !.readNotificationIds = popup.pending.readSet,
                            !.badgeCount = popup.pending.newBadgeCount]
  /\ popup' = [popup EXCEPT !.pending = NoWrite,
                            !.callback = [ shown |-> Ids(popup.pending.remaining),
                                           newBadgeCount |-> popup.pending.newBadgeCount ]]
  /\ ev' = Event("AckSet", "popup", local.badgeCount - popup.pending.newBadgeCount)
  /\ UNCHANGED <<clock, typedApi, alarms, setup, sync, runtimeState, badgeText, inv, lastAlarm>>

\* The set's callback runs in the popup: setNotifications(remaining) and the
\* badge text. Until then the popup still shows the entry that was clicked.
AckCallback ==
  /\ popup.callback # NoCallback
  /\ popup' = [popup EXCEPT !.shown = popup.callback.shown, !.callback = NoCallback]
  /\ badgeText' = badgeTextOf(popup.callback.newBadgeCount)
  /\ ev' = Event("AckCallback", "popup", 0)
  /\ UNCHANGED <<clock, typedApi, alarms, setup, sync, local, runtimeState, inv, lastAlarm>>

\* ------------------------------------------------------------ specifications
Cycle(c) ==
  \/ LoadSettings(c) \/ ViewerOk(c) \/ ViewerFail(c)
  \/ SearchOk(c) \/ SearchFail(c)
  \/ ThreadsOk(c) \/ ThreadsFail(c)
  \/ MergeSet(c) \/ SaveSet(c)

\* One activation at a time (the scheduler's alarms do not overlap a running
\* cycle) and the two writers of the store, merge and acknowledgement, not
\* interleaved between their read and their write.
Main == "a"

StoreFree ==
  /\ popup.pending = NoWrite
  /\ \A c \in Invocations : inv[c].pc # "mergeSet"

Next ==
  \/ Tick
  \/ (~Busy /\ Alarm(Main))
  \/ Cycle(Main)
  \/ (StoreFree /\ MergeGet(Main))
  \/ PopupOpen
  \/ \E id \in popup.shown : StoreFree /\ AckGet(id)
  \/ AckSet
  \/ AckCallback

Spec == Init /\ [][Next]_vars

\* ------------------------------------------- one cycle from any prior state
\* What sync storage may hold when the alarm fires: any combination of the
\* category flags, or a document without credential or without repositories.
CycleSettings ==
  { FlagSettings(n, m, t, a) : n \in BOOLEAN, m \in BOOLEAN, t \in BOOLEAN, a \in BOOLEAN }
  \cup { StoredSettings(Pat, <<>>, TRUE), StoredSettings("", OneRepo, TRUE) }

EmptyStore ==
  [ notifications |-> <<>>, readNotificationIds |-> {}, badgeCount |-> 0,
    lastCheckedAt |-> NoTime ]

\* What earlier cycles may have left behind by wall-clock time `now`:
\* nothing; a cached login after a cycle that failed in the search; a
\* checkpoint t after a cycle that succeeded at t, with or without a stored
\* notification.
PriorStates(typed, now) ==
  { [ runtimeState |-> [viewerLogin |-> NoLogin, lastCheckedAt |-> NoTime],
      local |-> EmptyStore ],
    [ runtimeState |-> [viewerLogin |-> ViewerOf(Pat), lastCheckedAt |-> NoTime],
      local |-> EmptyStore ] }
  \cup { [ runtimeState |-> [viewerLogin |-> ViewerOf(Pat), lastCheckedAt |-> t],
           local |-> [ EmptyStore EXCEPT !.lastCheckedAt = t ] ] : t \in 1..now }
  \cup { [ runtimeState |-> [viewerLogin |-> ViewerOf(Pat), lastCheckedAt |-> t],
           local |-> [ EmptyStore EXCEPT
                         !.lastCheckedAt = t,
                         !.badgeCount = 1,
                         !.notifications =
                            << toStored(Node("P1", typed, t, t, Plain, FALSE), "new", t) >> ] ] :
         t \in 1..now }

InitCycle ==
  /\ clock \in 1..MaxClock
  /\ typedApi \in BOOLEAN
  /\ sync \in CycleSettings
  /\ \E prior \in PriorStates(typedApi, clock) :
       /\ runtimeState = prior.runtimeState
       /\ local = prior.local
  /\ badgeText = badgeTextOf(local.badgeCount)
  /\ inv = [c \in Invocations |-> IdleInv]
  /\ popup = OpenPopup
  /\ lastAlarm = NoTime
  /\ alarms = InstalledAlarms
  /\ setup = [k \in 1..MaxSetups |-> IdleSetup]
  /\ ev = Event("Init", "env", 0)

\* One firing of the alarm and the cycle it starts, the answers kept in the
\* record of the step that consumed them.
NextCycle ==
  \/ (~Busy /\ Alarm(Main))
  \/ LoadSettings(Main)
  \/ ViewerOk(Main)
  \/ ViewerFail(Main)
  \/ SearchOkOn(Main, WideSearchResponses(typedApi, clock), TRUE)
  \/ SearchFail(Main)
  \/ ThreadsOkOn(Main, WideReviewResponses(inv[Main].prIds, clock), TRUE)
  \/ ThreadsFail(Main)
  \/ MergeGet(Main)
  \/ MergeSet(Main)
  \/ SaveSet(Main)

SpecCycle == InitCycle /\ [][NextCycle]_vars

\* ------------------------------------------------ one cycle, run to its end
\* One firing of the alarm from any prior state. Every remote call that is
\* pending answers or fails and every storage callback that is due is run:
\* an activation that can take a step does not wait forever.
NextLive ==
  \/ (~Busy /\ Alarm(Main))
  \/ Cycle(Main)
  \/ MergeGet(Main)

CallsAnswered == WF_vars(Cycle(Main) \/ MergeGet(Main))

SpecLive == InitCycle /\ [][NextLive]_vars /\ CallsAnswered

\* ------------------------------------------------- the classifier on one item
\* An activation suspended in the item search, with any category flags and
\* any checkpoint up to now, and the answer that arrives.
InitSearch ==
  /\ clock = MaxClock
  /\ typedApi \in BOOLEAN
  /\ sync \in { FlagSettings(n, m, t, a) :
                  n \in BOOLEAN, m \in BOOLEAN, t \in BOOLEAN, a \in BOOLEAN }
  /\ \E cp \in 0..clock :
       /\ runtimeState = [ viewerLogin |-> ViewerOf(Pat),
                           lastCheckedAt |-> IF cp = Epoch THEN NoTime ELSE cp ]
       /\ local = [ EmptyStore EXCEPT !.lastCheckedAt = runtimeState.lastCheckedAt ]
       /\ inv = [ c \in Invocations |->
                    IF c = Main
                    THEN [ IdleInv EXCEPT !.pc = "search", !.settings = loadSettings(sync),
                                          !.nowIso = clock, !.lastCheckedAt = cp,
                                          !.viewerLogin = ViewerOf(Pat) ]
                    ELSE IdleInv ]
  /\ badgeText = ""
  /\ popup = OpenPopup
  /\ lastAlarm = clock
  /\ alarms = InstalledAlarms
  /\ setup = [k \in 1..MaxSetups |-> IdleSetup]
  /\ ev = Event("LoadSettings", Main, 0)

NextSearch == SearchOkOn(Main, RichSearchResponses(typedApi, clock), TRUE)

SpecSearch == InitSearch /\ [][NextSearch]_vars

\* ------------------------------------------------- a store that was damaged
\* The value under `notifications` is replaced by something that is not an
\* array (by another program version, a sync tool, a hand edit).
CorruptNotifications ==
  /\ local.notifications # Malformed
  /\ local' = [local EXCEPT !.notifications = Malformed]
  /\ ev' = Event("CorruptNotifications", "env", 0)
  /\ UNCHANGED <<clock, typedApi, alarms, setup, sync, runtimeState, badgeText, inv, popup, lastAlarm>>

\* The same for the value under `readNotificationIds`.
CorruptReadIds ==
  /\ local.readNotificationIds # MalformedIds
  /\ local' = [local EXCEPT !.readNotificationIds = MalformedIds]
  /\ ev' = Event("CorruptReadIds", "env", 0)
  /\ UNCHANGED <<clock, typedApi, alarms, setup, sync, runtimeState, badgeText, inv, popup, lastAlarm>>

\* One cycle and the popup, from any prior state, with a store that may be
\* damaged at any moment.
InitCorrupt ==
  /\ clock \in 1..MaxClock
  /\ typedApi \in BOOLEAN
  /\ sync = StoredSettings(Pat, OneRepo, TRUE)
  /\ \E prior \in PriorStates(typedApi, clock) :
       /\ runtimeState = prior.runtimeState
       /\ local = prior.local
  /\ badgeText = badgeTextOf(local.badgeCount)
  /\ inv = [c \in Invocations |-> IdleInv]
  /\ popup = OpenPopup
  /\ lastAlarm = NoTime
  /\ alarms = InstalledAlarms
  /\ setup = [k \in 1..MaxSetups |-> IdleSetup]
  /\ ev = Event("Init", "env", 0)

NextCorrupt ==
  \/ CorruptNotifications
  \/ CorruptReadIds
  \/ (~Busy /\ Alarm(Main))
  \/ Cycle(Main)
  \/ (StoreFree /\ MergeGet(Main))
  \/ PopupOpen
  \/ \E id \in popup.shown : StoreFree /\ AckGet(id)
  \/ AckSet
  \/ AckCallback

SpecCorrupt == InitCorrupt /\ [][NextCorrupt]_vars

\* ------------------------------------------- merge and acknowledgement racing
\* One cycle and the popup, from any prior state. Merge and acknowledgement
\* are each a storage.local.get whose callback issues a storage.local.set;
\* nothing orders the callbacks of the background against those of the popup.
InitRace ==
  /\ clock \in 1..MaxClock
  /\ typedApi \in BOOLEAN
  /\ sync = StoredSettings(Pat, OneRepo, TRUE)
  /\ \E prior \in PriorStates(typedApi, clock) :
       /\ runtimeState = prior.runtimeState
       /\ local = prior.local
  /\ badgeText = badgeTextOf(local.badgeCount)
  /\ inv = [c \in Invocations |-> IdleInv]
  /\ popup = OpenPopup
  /\ lastAlarm = NoTime
  /\ alarms = InstalledAlarms
  /\ setup = [k \in 1..MaxSetups |-> IdleSetup]
  /\ ev = Event("Init", "env", 0)

NextRace ==
  \/ (~Busy /\ Alarm(Main))
  \/ Cycle(Main)
  \/ MergeGet(Main)
  \/ PopupOpen
  \/ \E id \in popup.shown : AckGet(id)
  \/ AckSet
  \/ AckCallback

SpecRace == InitRace /\ [][NextRace]_vars

\* ------------------------------------------------ installation and the alarm
\* A fresh profile or one with settings saved by an earlier version; no alarm
\* registered yet, onInstalled about to fire.
InitAlarms ==
  /\ clock = 1
  /\ typedApi \in BOOLEAN
  /\ sync \in { [st EXCEPT !.intervalMinutes = i] : st \in SettingsChoices, i \in Intervals }
  /\ local = EmptyStore
  /\ runtimeState = [viewerLogin |-> NoLogin, lastCheckedAt |-> NoTime]
  /\ badgeText = ""
  /\ inv = [c \in Invocations |-> IdleInv]
  /\ popup = OpenPopup
  /\ lastAlarm = NoTime
  /\ alarms = <<>>
  /\ setup = [k \in 1..MaxSetups |-> IdleSetup]
  /\ ev = Event("Init", "env", 0)

\* setupAlarms calls, saves on the options page, and the alarm listener with
\* the cycle it starts (the clock stands still: the periodic alarm fires once).
NextAlarms ==
  \/ \E k \in 1..MaxSetups :
       onInstalled(k) \/ SetupLoaded(k) \/ SetupCleared(k) \/ SetupCreate(k)
  \/ \E i \in Intervals : OptionsSave(i)
  \/ \E name \in AlarmNames : ~Busy /\ onAlarm(name, Main)
  \/ Cycle(Main)
  \/ MergeGet(Main)

SpecAlarms == InitAlarms /\ [][NextAlarms]_vars

\* The alarm listener as written: every firing starts an activation, whether
\* or not an earlier one is still suspended. The store operations of the
\* activations interleave freely. The popup stays closed.
NextOverlap ==
  \/ Tick
  \/ \E c \in Invocations : Alarm(c) \/ Cycle(c) \/ MergeGet(c)

SpecOverlap == Init /\ [][NextOverlap]_vars

\* Cycles one after the other, with service-worker restarts between them.
NextRestart ==
  \/ Tick
  \/ Restart
  \/ (~Busy /\ Alarm(Main))
  \/ Cycle(Main)
  \/ MergeGet(Main)

SpecRestart == Init /\ [][NextRestart]_vars

\* Cycles one after the other, the credential replaced on the options page
\* at any moment.
NextAccount ==
  \/ Tick
  \/ \E pat \in Pats : OptionsSavePat(pat)
  \/ (~Busy /\ Alarm(Main))
  \/ Cycle(Main)
  \/ MergeGet(Main)

SpecAccount == Init /\ [][NextAccount]_vars

TypeOK ==
  /\ clock \in 1..MaxClock
  /\ lastAlarm \in -1..MaxClock
  /\ local.badgeCount \in Int
  /\ \A c \in Invocations :
       inv[c].pc \in {"idle", "loadSettings", "viewer", "search", "threads",
                      "mergeGet", "mergeSet", "saveSet"}

\* ------------------------------------------------------------------ claims
FailOps == {"ViewerFail", "SearchFail", "ThreadsFail"}

Count(list, id) == Len(SelectSeq(list, LAMBDA n : n.id = id))

KindRank(kind) ==
  CASE kind = "new" -> 1 [] kind = "mention" -> 2 [] kind = "assignee" -> 3 [] OTHER -> 4

Appended(before, after) == SubSeq(after, Len(before) + 1, Len(after))

\* C1: with cycles that do not overlap the checkpoint never decreases. No
\* step lowers the checkpoint in effect or the persisted one; the step that
\* completes a cycle leaves a checkpoint at or above the one the cycle
\* started from; a step in which a remote call fails changes neither.
C1_CheckpointMonotone ==
  [][ /\ checkpointInEffect(runtimeState') >= checkpointInEffect(runtimeState)
      /\ local'.lastCheckedAt >= local.lastCheckedAt
      /\ (ev'.op = "SaveSet" =>
            /\ checkpointInEffect(runtimeState') >= inv[Main].lastCheckedAt
            /\ local'.lastCheckedAt >= inv[Main].lastCheckedAt)
      /\ (ev'.op \in FailOps =>
            /\ runtimeState'.lastCheckedAt = runtimeState.lastCheckedAt
            /\ local'.lastCheckedAt = local.lastCheckedAt) ]_vars

\* a cycle failed after an earlier one had advanced the checkpoint
C1_Witness ==
  /\ ev.op \in FailOps
  /\ runtimeState.lastCheckedAt > Epoch
  /\ local.lastCheckedAt = runtimeState.lastCheckedAt

\* C2: a cycle in which a remote call fails writes nothing to the store. The
\* failing step leaves the store and the badge as they were and ends the
\* cycle with its candidates dropped, and a cycle writes to the store only
\* after its last remote call has answered.
C2_FailedCycleWritesNothing ==
  [][ /\ (ev'.op \in FailOps =>
            /\ local' = local
            /\ badgeText' = badgeText
            /\ inv'[Main] = IdleInv)
      /\ (local' # local /\ ev'.by = Main => inv[Main].pc \in {"mergeSet", "saveSet"}) ]_vars

\* the thread search failed after the item search had produced candidates
C2_Witness == ev.op = "ThreadsFail" /\ ev.n > 0

C6_ReAckKeepsBadge ==
  [][ (ev'.op = "AckSet" /\ popup.pending.id \in local.readNotificationIds)
        => local'.badgeCount = local.badgeCount ]_vars

\* C7: the badge counter is never negative, in the store and in a write
\* that is on its way to it.
C7_BadgeNonNegative ==
  /\ local.badgeCount >= 0
  /\ inv[Main].newBadgeCount >= 0
  /\ (popup.pending # NoWrite => popup.pending.newBadgeCount >= 0)

\* an acknowledgement was applied while the counter was 0
C7_Witness ==
  /\ ev.op = "AckSet"
  /\ ev.n = 0
  /\ local.badgeCount = 0

C9_AckRemovesOnlyX ==
  [][ ev'.op = "AckSet" =>
        /\ local'.notifications
             = SelectSeq(local.notifications, LAMBDA n : n.id # popup.pending.id)
        /\ local'.readNotificationIds = local.readNotificationIds \cup {popup.pending.id} ]_vars

C11_UnconfiguredNoOp ==
  [][ /\ (ev'.op = "Noop" =>
            /\ runtimeState' = runtimeState
            /\ local' = local
            /\ badgeText' = badgeText
            /\ inv'[Main] = IdleInv)
      /\ (sync.pat = "" \/ Len(sync.repos) = 0 => ev'.op \in {"Alarm", "Noop"}) ]_vars

\* the guard returned on an empty repository list, with a credential, a
\* cached login, a checkpoint and a stored notification in place
C11_Witness ==
  /\ ev.op = "Noop"
  /\ sync.pat # ""
  /\ Len(sync.repos) = 0
  /\ runtimeState.viewerLogin # NoLogin
  /\ runtimeState.lastCheckedAt # NoTime
  /\ Len(local.notifications) > 0

\* C12: the checkpoint a successful cycle leaves is the time taken at the
\* cycle's start. nowIso is the clock at the step that starts the cycle and
\* does not change while the cycle runs; the completing step stores it, in
\* memory and in the store; and the next cycle, starting from it, finds
\* every item created after it to be new.
C12_CheckpointIsCycleStart ==
  [][ /\ (ev'.op = "LoadSettings" => inv'[Main].nowIso = clock)
      /\ (inv[Main].pc \notin {"idle", "loadSettings"} /\ inv'[Main].pc # "idle" =>
            inv'[Main].nowIso = inv[Main].nowIso)
      /\ (ev'.op = "SaveSet" =>
            /\ local'.lastCheckedAt = inv[Main].nowIso
            /\ runtimeState'.lastCheckedAt = inv[Main].nowIso)
      /\ (ev'.op = "LoadSettings" /\ runtimeState.lastCheckedAt # NoTime =>
            \A t \in 0..MaxClock :
              t > runtimeState.lastCheckedAt =>
                isNew([createdAt |-> t], inv'[Main].lastCheckedAt)) ]_vars

\* a cycle completed after the clock had moved on during it
C12_Witness ==
  /\ ev.op = "SaveSet"
  /\ local.lastCheckedAt < clock
  /\ runtimeState.lastCheckedAt = local.lastCheckedAt

C14_AtMostOneCycle ==
  Cardinality({c \in Invocations : inv[c].pc # "idle"}) <= 1

\* C15: the remote calls of a cycle are issued one after the other. The
\* thread search becomes pending only in the step in which the item search
\* answers; the item search becomes pending only once the settings are
\* loaded and the login is known; a failed item search ends the activation.
C15_RemoteCallsInOrder ==
  [][ /\ (inv'[Main].pc = "threads" /\ inv[Main].pc # "threads" =>
            inv[Main].pc = "search" /\ ev'.op = "SearchOk")
      /\ (inv'[Main].pc = "search" /\ inv[Main].pc # "search" =>
            inv[Main].pc \in {"loadSettings", "viewer"}
              /\ ev'.op \in {"LoadSettings", "ViewerOk"})
      /\ (ev'.op = "SearchFail" => inv'[Main].pc = "idle") ]_vars

\* the thread search is pending, issued by the step in which the item search
\* answered
C15_Witness ==
  /\ inv[Main].pc = "threads"
  /\ ev.op = "SearchOk"
  /\ Len(inv[Main].prIds) > 0

\* ids of the answer's items that are pull requests updated after the checkpoint
PullRequestsUpdatedAfter(nodes, checkpoint) ==
  LET prs == SelectSeq(nodes, LAMBDA n : TypeOf(n.id) = "PullRequest"
                                         /\ n.updatedAt > checkpoint)
  IN  [k \in 1..Len(prs) |-> prs[k].id]

\* C16: the thread search is issued exactly when the thread category is on
\* and the item search returned a pull request updated after the checkpoint,
\* and it asks for exactly those pull requests.
C16_ThreadSearchIssued ==
  [][ ev'.op = "SearchOk" =>
        LET due == PullRequestsUpdatedAfter(ev'.answer, inv[Main].lastCheckedAt)
        IN  /\ inv'[Main].pc = "threads"
                 <=> (inv[Main].settings.enableMentionThreads /\ due # <<>>)
            /\ (inv'[Main].pc = "threads" => inv'[Main].prIds = due) ]_vars

\* the threads of a thread-search answer, as <<pull request, thread>> indices
ThreadsOf(prs) ==
  { pk \in (1..Len(prs)) \X (1..MaxCycleThreads) : pk[2] <= Len(prs[pk[1]].reviewThreads) }

ThreadAt(prs, pk) == prs[pk[1]].reviewThreads[pk[2]]

ThreadEntries(collected) == Len(SelectSeq(collected, LAMBDA n : n.kind = "thread"))

Mentions(body) == includes(body, mentionToken(ViewerOf(Pat)))

\* a thread [c1 mentioning the viewer, c2 not mentioning]
MentionThenReply(thread) ==
  /\ Len(thread.comments) = 2
  /\ Mentions(thread.comments[1].body)
  /\ ~Mentions(thread.comments[2].body)

MentionIsNewest(thread) ==
  \/ Len(thread.comments) = 0
  \/ Mentions(thread.comments[Len(thread.comments)].body)

KindEnabled(settings, kind) ==
  CASE kind = "new" -> settings.enableNewItems
    [] kind = "mention" -> settings.enableMentions
    [] kind = "assignee" -> settings.enableAssigneeComments
    [] OTHER -> settings.enableMentionThreads

AllEnabled(settings, list) ==
  \A k \in 1..Len(list) : KindEnabled(settings, list[k].kind)

\* C19: a category that is switched off adds nothing of its kind. Whatever
\* the answers, the candidates a cycle collects and the entries its merge
\* appends to the store are of enabled kinds only, and with mention-threads
\* off no thread search becomes pending.
C19_DisabledCategoryAddsNothing ==
  [][ /\ (ev'.op \in {"SearchOk", "ThreadsOk"} =>
            AllEnabled(inv[Main].settings, inv'[Main].collected))
      /\ (ev'.op = "MergeSet" =>
            AllEnabled(inv[Main].settings,
                       Appended(local.notifications, local'.notifications)))
      /\ (inv'[Main].pc = "threads" => inv'[Main].settings.enableMentionThreads) ]_vars

\* every category is off and the item search returned a pull request that
\* is new, mentions the viewer, is assigned to the viewer with a fresh
\* comment and was updated after the checkpoint: nothing is collected and
\* no thread search is issued
C19_Witness ==
  /\ ev.op = "SearchOk"
  /\ inv[Main].pc = "saveSet"
  /\ ~inv[Main].settings.enableNewItems
  /\ ~inv[Main].settings.enableMentions
  /\ ~inv[Main].settings.enableAssigneeComments
  /\ ~inv[Main].settings.enableMentionThreads
  /\ \E k \in 1..Len(ev.answer) :
       LET node == ev.answer[k]
       IN  /\ node.typename = "PullRequest"
           /\ node.createdAt > inv[Main].lastCheckedAt
           /\ node.updatedAt > inv[Main].lastCheckedAt
           /\ Mentions(node.body)
           /\ Len(node.assignees) > 0
           /\ Len(node.comments) > 0

\* C20: with the new-items category on, an item of the answer becomes a
\* candidate of kind new exactly when its createdAt is strictly after the
\* checkpoint.
C20_IsNewStrict ==
  [][ (ev'.op = "SearchOk" /\ inv[Main].settings.enableNewItems) =>
        \A k \in 1..Len(ev'.answer) :
          ("new:" \o ev'.answer[k].id) \in Ids(inv'[Main].collected)
            <=> ev'.answer[k].createdAt > inv[Main].lastCheckedAt ]_vars

\* an item created exactly at the checkpoint was returned and is not new
C20_Witness ==
  /\ ev.op = "SearchOk"
  /\ inv[Main].settings.enableNewItems
  /\ inv[Main].lastCheckedAt > Epoch
  /\ \E k \in 1..Len(ev.answer) :
       /\ ev.answer[k].createdAt = inv[Main].lastCheckedAt
       /\ ("new:" \o ev.answer[k].id) \notin Ids(inv[Main].collected)

\* the items of an answer that are due an assignee candidate: the viewer is
\* among the assignees and some comment was updated after the checkpoint
AssigneeDue(nodes, checkpoint) ==
  SelectSeq(nodes, LAMBDA n :
    /\ \E i \in 1..Len(n.assignees) : n.assignees[i].login = ViewerOf(Pat)
    /\ \E i \in 1..Len(n.comments) : n.comments[i].updatedAt > checkpoint)

EntriesOfKind(collected, kind) == SelectSeq(collected, LAMBDA n : n.kind = kind)

\* C21: an item yields an assignee candidate exactly when the assignee
\* category is on, the viewer is among the item's assignees and at least one
\* fetched comment was updated strictly after the checkpoint, whoever wrote
\* that comment.
C21_AssigneeCandidateRule ==
  [][ ev'.op = "SearchOk" =>
        LET due == IF inv[Main].settings.enableAssigneeComments
                   THEN AssigneeDue(ev'.answer, inv[Main].lastCheckedAt)
                   ELSE <<>>
            got == EntriesOfKind(inv'[Main].collected, "assignee")
        IN  /\ Len(got) = Len(due)
            /\ \A k \in 1..Len(due) : got[k].id = "assignee:" \o due[k].id ]_vars

\* an assignee candidate was produced for an item whose only comment newer
\* than the checkpoint was written by the viewer, who is one of two assignees
C21_Witness ==
  /\ ev.op = "SearchOk"
  /\ Len(EntriesOfKind(inv[Main].collected, "assignee")) = 1
  /\ Len(ev.answer) = 1
  /\ Len(ev.answer[1].assignees) = 2
  /\ Len(ev.answer[1].comments) = 2
  /\ \A i \in 1..2 :
       ev.answer[1].comments[i].updatedAt > inv[Main].lastCheckedAt
         => ev.answer[1].comments[i].author.login = ViewerOf(Pat)

C23_ViewerQueriedWhileEmpty ==
  [][ /\ (inv'[Main].pc = "viewer" /\ inv[Main].pc # "viewer" =>
            runtimeState.viewerLogin = NoLogin)
      /\ (runtimeState.viewerLogin # NoLogin =>
            /\ runtimeState'.viewerLogin = runtimeState.viewerLogin
            /\ inv'[Main].pc # "viewer")
      /\ (ev'.op = "ViewerOk" => runtimeState'.viewerLogin = ViewerOf(sync.pat))
      /\ (ev'.op = "ViewerFail" =>
            runtimeState'.viewerLogin = NoLogin /\ inv'[Main] = IdleInv)
      /\ (ev'.op = "LoadSettings" /\ runtimeState.viewerLogin = NoLogin =>
            inv'[Main].pc = "viewer") ]_vars

\* a cycle that follows a successful one starts its item search at once,
\* with the login taken from the cache
C23_Witness ==
  /\ ev.op = "LoadSettings"
  /\ inv[Main].pc = "search"
  /\ inv[Main].viewerLogin = ViewerOf(sync.pat)
  /\ runtimeState.lastCheckedAt # NoTime
  /\ local.lastCheckedAt = runtimeState.lastCheckedAt

\* C24: after every completed merge that appends entries and after every
\* completed acknowledgement the badge text is the decimal string of the
\* persisted badge counter, or empty when the counter is zero.
C24_BadgeTextShowsCounter ==
  [][ ((ev'.op = "MergeSet" /\ ev'.n > 0) \/ ev'.op = "AckCallback") =>
        badgeText' = badgeTextOf(local'.badgeCount) ]_vars

\* a list of stored notifications, each with its id
WellFormed(list) ==
  /\ list # Malformed
  /\ \A k \in 1..Len(list) : "id" \in DOMAIN list[k]

\* C25: a stored notification list or read-id list that is not an array is
\* taken as empty. The merge that finds one goes on with the candidates alone
\* and the cycle runs to its end, advancing the checkpoint; an
\* acknowledgement that finds one goes on from an empty list or an empty read
\* set; and what either writes back is a well-formed array.
C25_MalformedStoreTolerated ==
  [][ /\ (inv[Main].pc = "mergeGet" /\ inv'[Main] # inv[Main] =>
            /\ inv'[Main].pc = "mergeSet"
            /\ (local.notifications = Malformed =>
                  inv'[Main].merged = merge(<<>>, inv[Main].collected)))
      /\ (ev'.op = "MergeSet" =>
            /\ WellFormed(local'.notifications)
            /\ inv'[Main].pc = "saveSet"
            /\ runtimeState'.lastCheckedAt = inv[Main].nowIso)
      /\ (ev'.op = "SaveSet" => local'.lastCheckedAt = inv[Main].nowIso)
      /\ (ev'.op = "AckGet" =>
            /\ (local.notifications = Malformed => popup'.pending.remaining = <<>>)
            /\ (local.readNotificationIds = MalformedIds =>
                  popup'.pending.readSet = {popup'.pending.id}))
      /\ (ev'.op = "AckSet" =>
            /\ WellFormed(local'.notifications)
            /\ local'.readNotificationIds # MalformedIds
            /\ popup.pending.id \in local'.readNotificationIds) ]_vars

\* a merge has read a stored list that is not an array and is about to write
\* its candidates back as the whole list
C25_Witness ==
  /\ ev.op = "MergeGet"
  /\ local.notifications = Malformed
  /\ inv[Main].pc = "mergeSet"
  /\ Len(inv[Main].merged) > 0
  /\ inv[Main].merged = inv[Main].collected

WatchAlarms == SelectSeq(alarms, LAMBDA a : a.name = WatchAlarm)

SetupInFlight == \E k \in 1..MaxSetups : setup[k].pc \in {"load", "clear", "create"}

C27_PeriodIsConfiguredInterval ==
  (~SetupInFlight /\ Len(WatchAlarms) > 0) =>
     \A k \in 1..Len(WatchAlarms) : WatchAlarms[k].periodInMinutes = sync.intervalMinutes

\* C28: a firing of the alarm named github-notify-watch starts a watch
\* cycle, and starts it by reading the settings; an alarm of another name
\* starts nothing and changes nothing. The step of the watch alarm takes the
\* activation from idle into loadSettings and touches nothing else; the
\* activation's next step is the arrival of the settings; no other step takes
\* an activation out of idle; and the step of another alarm leaves every
\* variable of the program as it was.
C28_WatchAlarmStartsCycle ==
  [][ /\ (ev'.op = "Alarm" =>
            /\ inv[Main].pc = "idle" /\ inv'[Main].pc = "loadSettings"
            /\ UNCHANGED <<sync, local, runtimeState, badgeText, alarms, setup>>)
      /\ (inv[Main].pc = "loadSettings" /\ inv'[Main] # inv[Main] =>
            ev'.op \in {"LoadSettings", "Noop"})
      /\ (inv[Main].pc = "idle" /\ inv'[Main].pc # "idle" => ev'.op = "Alarm")
      /\ (ev'.op = "OtherAlarm" =>
            UNCHANGED <<clock, typedApi, sync, local, runtimeState, badgeText, inv, popup,
                        lastAlarm, alarms, setup>>) ]_vars

\* the alarm that setupAlarms registered has fired and the cycle it started
\* is waiting for the settings
C28_Witness ==
  /\ ev.op = "Alarm"
  /\ inv[Main].pc = "loadSettings"
  /\ Len(WatchAlarms) = 1
  /\ lastAlarm = clock

\* C29: a restart does not take the checkpoint back. The checkpoint in
\* effect never decreases, restarts included, and a cycle that starts when a
\* checkpoint has been persisted takes that checkpoint as its lower bound.
C29_CheckpointSurvivesRestart ==
  [][ /\ checkpointInEffect(runtimeState') >= checkpointInEffect(runtimeState)
      /\ (ev'.op = "LoadSettings" /\ local.lastCheckedAt # NoTime =>
            inv'[Main].lastCheckedAt = local.lastCheckedAt) ]_vars

\* C30: no id is both in the persisted notification list and in the
\* persisted read set.
C30_ReadIdsNotListed ==
  Ids(local.notifications) \cap local.readNotificationIds = {}

\* C31: with merges and acknowledgements that do not interleave, starting
\* from an empty store, the badge counter is the number of entries in the
\* persisted notification list.
C31_BadgeCountsList == local.badgeCount = Len(local.notifications)

\* C32: when an acknowledgement and a merge interleave, what the merge
\* appended stays in the list and stays counted. The write of an
\* acknowledgement keeps every stored entry whose id is not in the read set
\* it writes, and lowers the badge counter by at most one.
C32_MergedEntriesSurviveAck ==
  [][ ev'.op = "AckSet" =>
        /\ \A k \in 1..Len(local.notifications) :
             local.notifications[k].id \notin popup.pending.readSet
               => local.notifications[k].id \in Ids(local'.notifications)
        /\ local'.badgeCount >= local.badgeCount - 1 ]_vars

\* C33: when an acknowledgement of X and a merge whose candidates do not
\* include X interleave, the acknowledgement stands. The write of a merge
\* leaves the read set as it is, puts no acknowledged id back into the list
\* unless it is among the candidates, and raises the badge counter by exactly
\* the number of candidates that were not in the list.
C33_AckSurvivesMerge ==
  [][ ev'.op = "MergeSet" =>
        /\ local'.readNotificationIds = local.readNotificationIds
        /\ \A id \in local.readNotificationIds :
             (id \notin Ids(inv[Main].collected) /\ id \notin Ids(local.notifications))
               => id \notin Ids(local'.notifications)
        /\ local'.badgeCount
             = local.badgeCount
                 + Len(SelectSeq(inv[Main].collected,
                                 LAMBDA n : n.id \notin Ids(local.notifications))) ]_vars

\* C34: the login a cycle works with belongs to the credential the cycle
\* loaded. While the item search or the thread search of an activation is
\* pending, and when its candidates are classified, the activation's
\* viewerLogin is the login of the account of its settings.pat.
C34_LoginMatchesCredential ==
  inv[Main].pc \in {"search", "threads"}
    => inv[Main].viewerLogin = ViewerOf(inv[Main].settings.pat)

\* the stored notification was derived from the repository's pull request
DerivedFromPullRequest(n) ==
  \E id \in {"P1", "I1"} : TypeOf(id) = "PullRequest" /\ n.id = n.kind \o ":" \o id

\* C35: every stored notification has isPullRequest = true exactly when the
\* item it was derived from is a pull request.
C35_IsPullRequestFlag ==
  \A k \in 1..Len(local.notifications) :
    local.notifications[k].isPullRequest <=> DerivedFromPullRequest(local.notifications[k])

\* C36: a successful cycle that collects nothing goes from its last answer
\* straight to saving the checkpoint. The step in which the last remote call
\* answers with no candidate collected leaves the store and the badge text as
\* they were, sets the checkpoint in effect to the cycle's start time and
\* issues the write of the checkpoint; no merge read is ever pending without
\* candidates; and the write that completes the cycle stores the start time
\* and changes neither the list, nor the read ids, nor the badge.
C36_EmptyCycleOnlyAdvances ==
  [][ /\ (ev'.op \in {"SearchOk", "ThreadsOk"} /\ inv'[Main].pc # "threads"
            /\ ev'.n = 0 =>
            /\ inv'[Main].pc = "saveSet"
            /\ local' = local
            /\ badgeText' = badgeText
            /\ runtimeState'.lastCheckedAt = inv[Main].nowIso)
      /\ (inv'[Main].pc \in {"mergeGet", "mergeSet"} => Len(inv'[Main].collected) > 0)
      /\ (ev'.op = "SaveSet" =>
            /\ local' = [local EXCEPT !.lastCheckedAt = inv[Main].nowIso]
            /\ badgeText' = badgeText) ]_vars

\* both remote calls have answered, nothing was collected, and the cycle is
\* writing a checkpoint later than the one it started from while a stored
\* notification and its count are as they were
C36_Witness ==
  /\ ev.op = "ThreadsOk"
  /\ ev.n = 0
  /\ inv[Main].pc = "saveSet"
  /\ Len(local.notifications) = 1
  /\ local.badgeCount = 1
  /\ badgeText = "1"
  /\ runtimeState.lastCheckedAt = inv[Main].nowIso
  /\ local.lastCheckedAt < runtimeState.lastCheckedAt

TerminalOps == {"Noop", "SaveSet"} \cup FailOps

\* position of an activation on its way through runWatchCycle
PcRank(pc) ==
  CASE pc = "idle" -> 0 [] pc = "loadSettings" -> 1 [] pc = "viewer" -> 2
    [] pc = "search" -> 3 [] pc = "threads" -> 4 [] pc = "mergeGet" -> 5
    [] pc = "mergeSet" -> 6 [] OTHER -> 7

\* C37: every started cycle reaches exactly one terminal outcome, provided
\* pending calls answer or fail and due callbacks run. An activation leaves
\* idle only to come back to it; it comes back in exactly one of three
\* steps: the return at the guard (nothing changed), the completion of the
\* checkpoint write (checkpoint = start time, in memory and in the store),
\* or a failed remote call (checkpoint untouched); while it runs it only
\* moves forward, so no call is issued twice; and the checkpoint in effect
\* changes only in the one step that starts the checkpoint write, the
\* persisted one only in the step that completes it.
C37_CycleTerminatesOnce ==
  /\ [][ /\ (inv[Main].pc # "idle" /\ inv'[Main].pc = "idle" =>
               /\ ev'.op \in TerminalOps
               /\ inv'[Main] = IdleInv)
         /\ (ev'.op \in TerminalOps => inv'[Main].pc = "idle")
         /\ (ev'.op = "Noop" => UNCHANGED <<runtimeState, local, badgeText>>)
         /\ (ev'.op = "SaveSet" =>
               /\ runtimeState.lastCheckedAt = inv[Main].nowIso
               /\ local'.lastCheckedAt = inv[Main].nowIso)
         /\ (ev'.op \in FailOps =>
               /\ runtimeState'.lastCheckedAt = runtimeState.lastCheckedAt
               /\ local'.lastCheckedAt = local.lastCheckedAt)
         /\ (inv[Main].pc # "idle" /\ inv'[Main].pc # "idle" /\ inv'[Main] # inv[Main] =>
               PcRank(inv'[Main].pc) > PcRank(inv[Main].pc))
         /\ (runtimeState'.lastCheckedAt # runtimeState.lastCheckedAt =>
               /\ inv[Main].pc \in {"search", "threads", "mergeSet"}
               /\ inv'[Main].pc = "saveSet"
               /\ runtimeState'.lastCheckedAt = inv[Main].nowIso)
         /\ (local'.lastCheckedAt # local.lastCheckedAt => ev'.op = "SaveSet") ]_vars
  /\ ((inv[Main].pc # "idle") ~> (inv[Main].pc = "idle" /\ ev.op \in TerminalOps))

\* a cycle whose merge appended to a stored list has completed, with the
\* checkpoint at its start time in memory and in the store
C37_Witness ==
  /\ ev.op = "SaveSet"
  /\ inv[Main] = IdleInv
  /\ Len(local.notifications) >= 2
  /\ local.lastCheckedAt = clock
  /\ runtimeState.lastCheckedAt = clock

====
